---------------------------- MODULE Spec2Model ----------------------------
(***************************************************************************)
(* A model of the site-mirroring engine of mintlify-docs-archiver          *)
(* (src/scraper.js): the crawl loop of runScraper, the URL-to-local-path   *)
(* mapping (safePath, getRelativePath, the local path of downloadResource  *)
(* and processPage) and the rewrite passes over the saved artifacts.       *)
(*                                                                         *)
(* Strings are sequences of one-character strings.  A string that the code *)
(* splits on "/" (a pathname, a local path, a relative reference) is the   *)
(* sequence of its parts, exactly what split("/") returns: "/guide" is     *)
(* << <<>>, "guide" >> and a trailing "/" is a trailing empty part.        *)
(***************************************************************************)
EXTENDS Integers, Sequences, FiniteSets, TLC

VARIABLES
    MAX_PAGES,        \* runScraper's maxPages argument
    site,             \* the live site: what each page links to (the world)
    pagesToProcess,   \* the pending queue (array of URL strings)
    processedPages,   \* Set of normalized URLs
    processed,        \* the crawl loop's counter
    links,            \* the links returned by the last processPage call
    pc,               \* position of runScraper
    renders,          \* history: how often page.goto was called per normalized URL
    outcome,          \* history: how each processPage call ended
    pages,            \* collectedData.pages (the url of each record)
    statsProcessedPages, \* collectedData.stats.processedPages
    url1, url2,       \* the resource URLs of the download scenarios
    processedResources, \* Set of normalized resource URLs
    disk,             \* the file system: what exists at each path
    saved,            \* history: the files written, << url, local path >> each
    extractedResources, \* collectedData.stats.extractedResources
    step,             \* position of the download and rewrite scenarios
    web,              \* the references each document of the site carries (the world)
    todo,             \* the pages the crawl loop still hands to processPage
    resourcesLeft,    \* the resources processPage still has to download
    args,             \* process.argv.slice(2) of main.js
    requests,         \* history: the hosts a request was issued to
    log,              \* history: the fetches and file writes, in order
    openPages,        \* the browser pages opened by processPage and not closed
    uniqueResources,  \* downloadAllResources: the resources, one per distinct URL
    batchAt,          \* downloadAllResources: the loop index i of the batch loop
    running,          \* downloadAllResources: the position of each download
    bulkWritten       \* history: the files written by the bulk download

vars == << MAX_PAGES, site, pagesToProcess, processedPages, processed, links, pc,
           renders, outcome, pages, statsProcessedPages,
           url1, url2, processedResources, disk, saved, extractedResources, step,
           web, todo, resourcesLeft, args, requests, log,
           openPages, uniqueResources, batchAt, running, bulkWritten >>

\* the variables of the bulk download
bulkVars == << uniqueResources, batchAt, running, bulkWritten >>

\* the variables of the crawl loop
loopVars == << MAX_PAGES, site, pagesToProcess, processedPages, processed, links,
               pc, renders, outcome, pages, statsProcessedPages, args, openPages >>

crawlVars == << loopVars, bulkVars >>

mapVars == << url1, url2, processedResources, disk, saved, extractedResources, step,
             web, todo, resourcesLeft, log >>

-----------------------------------------------------------------------------
(* Strings *)

Min(a, b) == IF a <= b THEN a ELSE b

\* s.startsWith(p)
StartsWith(s, p) ==
    /\ Len(s) >= Len(p)
    /\ SubSeq(s, 1, Len(p)) = p

\* s.includes(p)
Includes(s, p) ==
    \E i \in 0 .. (Len(s) - Len(p)) : SubSeq(s, i + 1, i + Len(p)) = p

\* s.replace(/p/g, r) for a literal pattern p
RECURSIVE ReplaceAll(_, _, _)
ReplaceAll(s, p, r) ==
    IF Len(s) < Len(p) \/ Len(p) = 0 THEN s
    ELSE IF StartsWith(s, p)
         THEN r \o ReplaceAll(SubSeq(s, Len(p) + 1, Len(s)), p, r)
         ELSE << Head(s) >> \o ReplaceAll(Tail(s), p, r)

\* s.replace(/[set]/g, r): every character of the class becomes r
ReplaceClass(s, set, r) ==
    [i \in 1 .. Len(s) |-> IF s[i] \in set THEN r ELSE s[i]]

\* parts.join("/") compared as strings: the character sequence of a part list
RECURSIVE Join(_)
Join(parts) ==
    IF Len(parts) = 0 THEN << >>
    ELSE IF Len(parts) = 1 THEN parts[1]
    ELSE parts[1] \o << "/" >> \o Join(Tail(parts))

Last(s) == s[Len(s)]
Front(s) == SubSeq(s, 1, Len(s) - 1)

LBRACKET == << "_", "l", "b", "r", "a", "c", "k", "e", "t", "_" >>
RBRACKET == << "_", "r", "b", "r", "a", "c", "k", "e", "t", "_" >>
DOT == << "." >>
DOTDOT == << ".", "." >>
INDEX_HTML == << "i", "n", "d", "e", "x", ".", "h", "t", "m", "l" >>
DOT_HTML == << ".", "h", "t", "m", "l" >>
ASSETS == << "a", "s", "s", "e", "t", "s" >>
OUTPUT_DIR == << "o", "u", "t", "p", "u", "t" >>

-----------------------------------------------------------------------------
(* URLs.  A URL string is the record of its components; pathname is the    *)
(* list of its parts, << >> when the string has no path at all.            *)

HTTPS == << "h", "t", "t", "p", "s", ":" >>
HTTP == << "h", "t", "t", "p", ":" >>

\* runScraper's domain argument, as used by the scenarios of this model
domain == << "d", ".", "t" >>
CDN_BUNNY == << "m", "i", "n", "t", "l", "i", "f", "y", ".", "b", "-", "c", "d", "n", ".", "n", "e", "t" >>
CDN_S3 == << "m", "i", "n", "t", "l", "i", "f", "y", ".", "s", "3", ".", "u", "s", "-", "w", "e", "s", "t", "-", "1", ".", "a", "m", "a", "z", "o", "n", "a", "w", "s", ".", "c", "o", "m" >>
CDN_JSDELIVR == << "c", "d", "n", ".", "j", "s", "d", "e", "l", "i", "v", "r", ".", "n", "e", "t" >>
\* a host outside the allow-list
OTHER_HOST == << "x", ".", "t" >>

ALLOWED_DOMAINS == { domain, CDN_BUNNY, CDN_S3, CDN_JSDELIVR }

Url(protocol, hostname, pathname, search, hash) ==
    [protocol |-> protocol, hostname |-> hostname, pathname |-> pathname,
     search |-> search, hash |-> hash]

\* `https://${domain}`
BASE_URL == Url(HTTPS, domain, << >>, << >>, << >>)

\* the characters of a URL string
UrlString(u) ==
    u.protocol \o << "/", "/" >> \o u.hostname \o Join(u.pathname) \o u.search \o u.hash

SingleDots == { << "." >>, << "%", "2", "e" >>, << "%", "2", "E" >> }
DoubleDots == { a \o b : a \in SingleDots, b \in SingleDots }

\* The URL parser's path: dot segments are resolved, an empty path becomes "/".
RECURSIVE RemoveDotSegments(_, _)
RemoveDotSegments(segs, acc) ==
    IF segs = << >> THEN acc
    ELSE LET s == Head(segs)
             last == Len(segs) = 1
             next == IF s \in DoubleDots
                     THEN (IF acc = << >> THEN acc ELSE Front(acc))
                          \o (IF last THEN << << >> >> ELSE << >>)
                     ELSE IF s \in SingleDots
                     THEN acc \o (IF last THEN << << >> >> ELSE << >>)
                     ELSE acc \o << s >>
         IN RemoveDotSegments(Tail(segs), next)

\* new URL(urlString): the parsed URL, whose href is its own string again
ParseUrl(u) ==
    [u EXCEPT !.pathname =
        IF Len(u.pathname) <= 1 THEN << << >>, << >> >>
        ELSE << << >> >> \o RemoveDotSegments(Tail(u.pathname), << >>)]

\* an isAllowedUrl that admits every host
isAllowedUrlAnyHost(u) == ParseUrl(u).hostname = ParseUrl(u).hostname

isAllowedUrl(u) == ParseUrl(u).hostname \in ALLOWED_DOMAINS

\* a normalizeUrl that keeps the hash fragment
normalizeUrlKeepHash(u) == ParseUrl(u)

normalizeUrl(u) == [ParseUrl(u) EXCEPT !.hash = << >>]

-----------------------------------------------------------------------------
(* The path mapper *)

UNSAFE_CHARS == { "<", ">", ":", "\"", "\\", "|", "?", "*" }

ALNUM ==
    {"a", "b", "c", "d", "e", "f", "g", "h", "i", "j", "k", "l", "m", "n", "o",
     "p", "q", "r", "s", "t", "u", "v", "w", "x", "y", "z", "A", "B", "C", "D",
     "E", "F", "G", "H", "I", "J", "K", "L", "M", "N", "O", "P", "Q", "R", "S",
     "T", "U", "V", "W", "X", "Y", "Z", "0", "1", "2", "3", "4", "5", "6", "7",
     "8", "9"}

\* a safePath that deletes the problematic characters instead of replacing them
safePathDeleting(inputPath) ==
    LET a == ReplaceAll(ReplaceAll(inputPath, << "%", "5", "B" >>, LBRACKET),
                        << "%", "5", "D" >>, RBRACKET)
        b == ReplaceAll(ReplaceAll(a, << "[" >>, LBRACKET), << "]" >>, RBRACKET)
    IN SelectSeq(b, LAMBDA c : c \notin UNSAFE_CHARS)

safePath(inputPath) ==
    LET a == ReplaceAll(ReplaceAll(inputPath, << "%", "5", "B" >>, LBRACKET),
                        << "%", "5", "D" >>, RBRACKET)
        b == ReplaceAll(ReplaceAll(a, << "[" >>, LBRACKET), << "]" >>, RBRACKET)
    IN ReplaceClass(b, UNSAFE_CHARS, "_")

\* safePath of a string given by its parts ("/" is left alone by safePath)
SafeParts(parts) == [i \in 1 .. Len(parts) |-> safePath(parts[i])]

QUERY_EXTENSIONS ==
    { << ".", "c", "s", "s" >>, << ".", "j", "s" >>, << ".", "p", "n", "g" >>,
      << ".", "j", "p", "g" >>, << ".", "s", "v", "g" >> }

\* the relative path of a URL: the parts of "/..." (first part empty)
getRelativePath(u) ==
    LET parsedUrl == ParseUrl(u)
        p1 == IF parsedUrl.hostname # domain
              THEN << << >>, ASSETS, parsedUrl.hostname >> \o Tail(parsedUrl.pathname)
              ELSE parsedUrl.pathname
        p2 == SafeParts(p1)
        safeQueryString ==
            [i \in 1 .. Len(parsedUrl.search) |->
                IF parsedUrl.search[i] \in ALNUM THEN parsedUrl.search[i] ELSE "_"]
    IN IF parsedUrl.search # << >>
          /\ \E e \in QUERY_EXTENSIONS : Includes(UrlString(u), e)
       THEN [p2 EXCEPT ![Len(p2)] = @ \o safeQueryString]
       ELSE p2

\* path.normalize of a relative path given by its parts
RECURSIVE NormalizeParts(_, _)
NormalizeParts(parts, acc) ==
    IF parts = << >> THEN acc
    ELSE LET s == Head(parts)
             next == IF s = << >> \/ s = DOT THEN acc
                     ELSE IF s = DOTDOT
                     THEN (IF acc # << >> /\ Last(acc) # DOTDOT
                           THEN Front(acc) ELSE acc \o << s >>)
                     ELSE acc \o << s >>
         IN NormalizeParts(Tail(parts), next)

\* path.join(a, b): a trailing "/" of b is kept, and nothing left is "."
PathJoin(a, b) ==
    LET n == NormalizeParts(a \o b, << >>)
    IN IF n = << >> THEN << DOT >>
       ELSE IF b # << >> /\ Last(b) = << >> THEN n \o << << >> >> ELSE n

EndsWithSlash(p) == p # << >> /\ Last(p) = << >>

\* a local path without its trailing "/": the name of a file or directory
Strip(p) == IF EndsWithSlash(p) THEN Front(p) ELSE p

\* path.dirname
Dirname(p) == Front(Strip(p))

\* path.extname(localPath) is not empty
HasExtname(p) ==
    LET base == Last(Strip(p))
    IN \E i \in 2 .. Len(base) :
          /\ base[i] = "."
          /\ ~(i = 2 /\ base[1] = "." /\ Len(base) = 2)

\* localPath.includes('.')
PathIncludesDot(p) == \E i \in 1 .. Len(p) : Includes(p[i], DOT)

\* "paths that end with / or don't have an extension" get index.html
WithIndex(localPath) ==
    IF EndsWithSlash(localPath) \/ (~HasExtname(localPath) /\ ~PathIncludesDot(localPath))
    THEN PathJoin(localPath, << INDEX_HTML >>)
    ELSE localPath

-----------------------------------------------------------------------------
(* The live site of the crawl scenarios *)

MaxBudget == 2
MaxLinks == 2

S_A == << "a" >>
S_B == << "b" >>
FRAG == << "#", "s" >>

PAGE_ROOT == Url(HTTPS, domain, << << >>, << >> >>, << >>, << >>)
PAGE_A == Url(HTTPS, domain, << << >>, S_A >>, << >>, << >>)
PAGE_B == Url(HTTPS, domain, << << >>, S_B >>, << >>, << >>)

\* the hrefs a page may carry: a.href is an absolute URL string
LinkUrls ==
    { PAGE_A, [PAGE_A EXCEPT !.hash = FRAG], PAGE_B,
      Url(HTTPS, OTHER_HOST, << << >>, S_A >>, << >>, << >>) }

\* the document page.goto(u) loads: the fragment is never sent to the server
Document(u) == [ParseUrl(u) EXCEPT !.hash = << >>]

\* the pages of the site
PageUrls == { Document(l) : l \in { x \in LinkUrls : isAllowedUrl(x) } }
                \cup { Document(BASE_URL) }

\* the sets of hrefs a page may carry
LinkSets == { ls \in SUBSET LinkUrls : Cardinality(ls) <= MaxLinks }

\* the arrays that list a set of hrefs, in any document order
Orderings(ls) ==
    { q \in [1 .. Cardinality(ls) -> ls] : \A i, j \in DOMAIN q : i # j => q[i] # q[j] }

Budgets == (-2) .. MaxBudget

Range(f) == { f[i] : i \in DOMAIN f }

-----------------------------------------------------------------------------
(* The crawl loop of runScraper *)

\* how a processPage call that was not skipped can end
Outcomes == { "ok", "navError", "writeError", "evalError" }

\* an enqueue that tests the processed set only, not the pending queue
RECURSIVE EnqueueNoQueueCheck(_, _)
EnqueueNoQueueCheck(queue, ls) ==
    IF ls = << >> THEN queue
    ELSE LET normalizedLink == normalizeUrl(Head(ls))
         IN IF normalizedLink \notin processedPages
            THEN EnqueueNoQueueCheck(queue \o << Head(ls) >>, Tail(ls))
            ELSE EnqueueNoQueueCheck(queue, Tail(ls))

\* "Add new links to the processing queue, but normalize URLs first"
RECURSIVE Enqueue(_, _)
Enqueue(queue, ls) ==
    IF ls = << >> THEN queue
    ELSE LET normalizedLink == normalizeUrl(Head(ls))
         IN IF /\ normalizedLink \notin processedPages
               /\ ~\E i \in 1 .. Len(queue) : normalizeUrl(queue[i]) = normalizedLink
            THEN Enqueue(queue \o << Head(ls) >>, Tail(ls))
            ELSE Enqueue(queue, Tail(ls))

\* a loop condition that ignores the page budget
LoopConditionNoBudget == Len(pagesToProcess) > 0

\* the while condition of the crawl loop
LoopCondition ==
    /\ Len(pagesToProcess) > 0
    /\ (MAX_PAGES = -1 \/ processed < MAX_PAGES)

\* a processedPages.add that forgets the page
processedPagesForget(u) == processedPages

\* processedPages.add(normalizedUrl), before the page is opened
processedPagesAdd(u) == processedPages \cup { u }

\* whether processPage closes the page it opened: page.close() is called on the
\* way out of a failed save and at the end of the try block; the outer catch, reached
\* when goto or evaluate rejects, logs and returns without it
ClosesPage(o) == o \in { "ok", "writeError" }

\* const currentUrl = pagesToProcess.shift(); links = await processPage(currentUrl)
ProcessPage ==
    /\ pc = "loop"
    /\ LoopCondition
    /\ LET pageUrl == Head(pagesToProcess)
           normalizedUrl == normalizeUrl(pageUrl)
       IN /\ pagesToProcess' = Tail(pagesToProcess)
          /\ IF normalizedUrl \in processedPages \/ ~isAllowedUrl(normalizedUrl)
             THEN /\ links' = << >>
                  /\ UNCHANGED << processedPages, renders, outcome, pages,
                                  statsProcessedPages, requests, openPages >>
             ELSE /\ processedPages' = processedPagesAdd(normalizedUrl)
                  /\ renders' = [renders EXCEPT ![Document(pageUrl)] = @ + 1]
                  /\ requests' = requests \cup { ParseUrl(pageUrl).hostname }
                  /\ \E o \in Outcomes :
                        /\ outcome' = [outcome EXCEPT ![Document(pageUrl)] = o]
                        /\ openPages' = IF ClosesPage(o) THEN openPages
                                        ELSE openPages + 1
                        /\ pages' = IF o \in { "ok", "evalError" }
                                    THEN Append(pages, [url |-> pageUrl])
                                    ELSE pages
                        /\ statsProcessedPages' =
                              IF o = "ok" THEN statsProcessedPages + 1
                              ELSE statsProcessedPages
                        /\ \E found \in Orderings(site[Document(pageUrl)]) :
                              links' = IF o = "ok"
                                       THEN SelectSeq(found, isAllowedUrl)
                                       ELSE << >>
    /\ pc' = "enqueue"
    /\ UNCHANGED << MAX_PAGES, site, processed, args >>
    /\ UNCHANGED bulkVars
    /\ UNCHANGED mapVars

\* for (const link of links) ...; processed++
EnqueueLinks ==
    /\ pc = "enqueue"
    /\ pagesToProcess' = Enqueue(pagesToProcess, links)
    /\ processed' = processed + 1
    /\ links' = << >>
    /\ pc' = "loop"
    /\ UNCHANGED << MAX_PAGES, site, processedPages, renders, outcome, pages,
                    statsProcessedPages, args, requests, openPages >>
    /\ UNCHANGED bulkVars
    /\ UNCHANGED mapVars

\* the loop condition is false: the final passes follow
LoopExit ==
    /\ pc = "loop"
    /\ ~LoopCondition
    /\ pc' = "passes"
    /\ UNCHANGED << MAX_PAGES, site, pagesToProcess, processedPages, processed, links,
                    renders, outcome, pages, statsProcessedPages, args, requests,
                    openPages >>
    /\ UNCHANGED bulkVars
    /\ UNCHANGED mapVars

\* no bulk download is under way
BulkIdle ==
    /\ uniqueResources = << >>
    /\ batchAt = 0
    /\ running = << >>
    /\ bulkWritten = { }

\* a site whose documents carry no reference
NoWeb == [u \in { } |-> << >>]

MapIdle ==
    /\ web = NoWeb
    /\ todo = << >>
    /\ resourcesLeft = << >>
    /\ url1 = BASE_URL
    /\ url2 = BASE_URL
    /\ processedResources = { }
    /\ disk = << >>
    /\ saved = << >>
    /\ extractedResources = 0
    /\ step = "idle"
    /\ log = << >>

DIGITS == << "0", "1", "2", "3", "4", "5", "6", "7", "8", "9" >>

\* the decimal string of a small integer, as typed on the command line
IntString(n) ==
    IF n < 0 THEN << "-", DIGITS[1 - n] >> ELSE << DIGITS[n + 1] >>

\* the value of a string of decimal digits
RECURSIVE DigitsValue(_, _)
DigitsValue(s, acc) ==
    IF s = << >> THEN acc
    ELSE DigitsValue(Tail(s),
                     10 * acc + (CHOOSE d \in 0 .. 9 : DIGITS[d + 1] = Head(s)))

\* parseInt(s, 10) of a signed decimal string
parseInt(s) ==
    IF Head(s) = "-" THEN 0 - DigitsValue(Tail(s), 0) ELSE DigitsValue(s, 0)

\* the command lines: the domain alone, or the domain and maxPages
ArgLists == { << domain >> } \cup { << domain, IntString(n) >> : n \in Budgets }

\* runScraper({ domain, maxPages = 5 }): the default of the parameter
DEFAULT_MAX_PAGES == 5

\* main.js: const maxPages = args.length > 1 ? parseInt(args[1], 10) : -1
maxPages(a) == IF Len(a) > 1 THEN parseInt(a[2]) ELSE -1

Init ==
    /\ args \in ArgLists
    /\ requests = { }
    /\ MAX_PAGES = maxPages(args)
    /\ site \in [PageUrls -> LinkSets]
    /\ pagesToProcess = << BASE_URL >>
    /\ processedPages = { }
    /\ processed = 0
    /\ links = << >>
    /\ pc = "loop"
    /\ renders = [p \in PageUrls |-> 0]
    /\ outcome = [p \in PageUrls |-> "none"]
    /\ pages = << >>
    /\ statsProcessedPages = 0
    /\ openPages = 0
    /\ BulkIdle
    /\ MapIdle

Next == ProcessPage \/ EnqueueLinks \/ LoopExit

Spec == Init /\ [][Next]_vars

\* the loop is a sequence of awaited calls: a step that can be taken is taken
FairSpec == Spec /\ WF_vars(Next)

-----------------------------------------------------------------------------
(* The crawl: budget, termination, frontier *)

RECURSIVE SumOver(_, _)
SumOver(f, S) ==
    IF S = { } THEN 0
    ELSE LET x == CHOOSE y \in S : TRUE IN f[x] + SumOver(f, S \ { x })

\* the number of page renders so far
Rendered == SumOver(renders, PageUrls)

\* the link graph of the site: the allowed pages each page links to
LinkGraph == [p \in PageUrls |-> { Document(l) : l \in { x \in site[p] : isAllowedUrl(x) } }]

\* the same graph without the links of the pages whose processPage call failed
ReturnedGraph ==
    [p \in PageUrls |-> IF outcome[p] \in { "ok", "none" } THEN LinkGraph[p] ELSE { }]

RECURSIVE Closure(_, _)
Closure(g, S) ==
    LET T == S \cup UNION { g[p] : p \in S }
    IN IF T = S THEN S ELSE Closure(g, T)

Seed == Document(BASE_URL)

\* a measure of the work left: unprocessed pages, pending entries, position
Variant ==
    LET K == Cardinality(LinkUrls) + 1
        rank == CASE pc = "enqueue" -> 2 [] pc = "loop" -> 1 [] OTHER -> 0
    IN 3 * (K * Cardinality(PageUrls \ processedPages) + Len(pagesToProcess) + Len(links))
       + rank

\* C1 as stated: with maxPages = N > 0 and R pages reachable from the seed in the
\* link graph, the crawl loop ends having rendered exactly min(N, R) pages.
C1_Original ==
    (pc = "passes" /\ MAX_PAGES > 0)
        => Rendered = Min(MAX_PAGES, Cardinality(Closure(LinkGraph, { Seed })))

\* C1 as amended: with maxPages = N > 0 the crawl loop never renders more than N
\* pages, every step of it reduces the work left (so it terminates), and it ends
\* having rendered exactly min(N, R') pages, R' being the number of pages
\* reachable from the seed through the links that processPage returned (a page
\* whose render or save failed returns none).
C1_BudgetRespected ==
    /\ [](MAX_PAGES > 0 => Rendered <= MAX_PAGES)
    /\ []((pc = "passes" /\ MAX_PAGES > 0)
            => Rendered = Min(MAX_PAGES, Cardinality(Closure(ReturnedGraph, { Seed }))))
    /\ [](MAX_PAGES > 0 => Variant >= 0 /\ pc \in { "loop", "enqueue", "passes" })
    /\ [][MAX_PAGES > 0 => Variant' < Variant]_vars

\* the budget cuts the crawl short: two pages rendered, a third one still pending
C1_Witness ==
    /\ pc = "passes"
    /\ MAX_PAGES = 2
    /\ Rendered = 2
    /\ Len(pagesToProcess) > 0
    /\ Cardinality(Closure(ReturnedGraph, { Seed })) = 3

\* C2 as stated: with maxPages = -1 the crawl loop ends, and then every page
\* reachable from the seed in the link graph has been rendered exactly once.
C2_Original ==
    (pc = "passes" /\ MAX_PAGES = -1)
        => \A p \in Closure(LinkGraph, { Seed }) : renders[p] = 1

\* C2 as amended: with maxPages = -1 every step of the crawl loop reduces the work
\* left (so it terminates), no page is ever rendered twice, and at the end every
\* page reachable from the seed through the links that processPage returned has
\* been rendered exactly once.
C2_UnlimitedTerminates ==
    /\ [](MAX_PAGES = -1 => \A p \in PageUrls : renders[p] <= 1)
    /\ []((pc = "passes" /\ MAX_PAGES = -1)
            => /\ pagesToProcess = << >>
               /\ \A p \in Closure(ReturnedGraph, { Seed }) : renders[p] = 1)
    /\ [](MAX_PAGES = -1 => Variant >= 0 /\ pc \in { "loop", "enqueue", "passes" })
    /\ [][MAX_PAGES = -1 => Variant' < Variant]_vars

\* an unlimited crawl of a cyclic site ends with all three pages rendered
C2_Witness ==
    /\ pc = "passes"
    /\ MAX_PAGES = -1
    /\ Rendered = 3
    /\ Document(PAGE_A) \in LinkGraph[Document(PAGE_A)]
    /\ Document(PAGE_A) \in LinkGraph[Document(PAGE_B)]

\* C3: the pending queue holds at most one entry per normalized URL, and no
\* pending entry's normalized URL is in the processed set.
C3_FrontierUnique ==
    /\ \A i, j \in 1 .. Len(pagesToProcess) :
          normalizeUrl(pagesToProcess[i]) = normalizeUrl(pagesToProcess[j]) => i = j
    /\ \A i \in 1 .. Len(pagesToProcess) :
          normalizeUrl(pagesToProcess[i]) \notin processedPages

\* the root page linked to /a and to /a#s, and one entry only was enqueued
C3_Witness ==
    /\ pc = "loop"
    /\ processed = 1
    /\ site[Seed] = { PAGE_A, [PAGE_A EXCEPT !.hash = FRAG] }
    /\ Len(pagesToProcess) = 1

-----------------------------------------------------------------------------
(* The file system below the working directory *)

Prefixes(p) == { SubSeq(p, 1, k) : k \in 1 .. Len(p) }

\* what the file system holds at a path: a directory, or a file with its content
\* (the references of a text artifact, in order; none for other bytes)
DIR == [kind |-> "dir", origin |-> "none", refs |-> << >>]
File(origin, refs) == [kind |-> "file", origin |-> origin, refs |-> refs]

Exists(d, p) == p \in DOMAIN d
IsDirectory(d, p) == p \in DOMAIN d /\ d[p].kind = "dir"

\* fs.mkdirSync(dir, { recursive: true }) does not throw
MkdirOk(d, dir) == \A q \in Prefixes(dir) : ~Exists(d, q) \/ IsDirectory(d, q)

Mkdir(d, dir) ==
    [q \in (DOMAIN d) \cup Prefixes(dir) |-> IF q \in DOMAIN d THEN d[q] ELSE DIR]

\* fs.writeFileSync(file, content) does not throw
WriteOk(d, file) == IsDirectory(d, Dirname(file)) /\ ~IsDirectory(d, file)

WriteFile(d, file, content) ==
    [q \in (DOMAIN d) \cup { file } |-> IF q = file THEN content ELSE d[q]]

\* a local path that is never adjusted to the directories found on disk
ResourceLocalPathNoDiskCheck(u, d) ==
    LET localPath == WithIndex(PathJoin(<< OUTPUT_DIR >>, getRelativePath(u)))
    IN IF ~MkdirOk(d, Dirname(localPath))
       THEN [ok |-> FALSE, path |-> localPath, disk |-> d]
       ELSE [ok |-> TRUE, path |-> localPath, disk |-> Mkdir(d, Dirname(localPath))]

\* downloadResource and processPage: the local path of a URL, the directories
\* being created on the way
ResourceLocalPath(u, d) ==
    LET localPath == WithIndex(PathJoin(<< OUTPUT_DIR >>, getRelativePath(u)))
        dir == Dirname(localPath)
    IN IF ~MkdirOk(d, dir)
       THEN [ok |-> FALSE, path |-> localPath, disk |-> d]
       ELSE LET d1 == Mkdir(d, dir)
            IN IF Exists(d1, localPath) /\ IsDirectory(d1, localPath)
               THEN [ok |-> TRUE, path |-> PathJoin(localPath, << INDEX_HTML >>),
                     disk |-> d1]
               ELSE [ok |-> TRUE, path |-> localPath, disk |-> d1]

-----------------------------------------------------------------------------
(* References.  The content of a text artifact is the list of the URL      *)
(* references it carries: the element and attribute (or CSS construct) that *)
(* holds the reference, its value, an absolute URL string or a relative one  *)
(* given by its parts, and the quote character around the value.            *)

NO_URL == Url(<< >>, << >>, << >>, << >>, << >>)

\* the quote the passes put around a value: attr="..." and url('...')
QuoteOf(attr) == IF attr \in { "style", "url", "import", "mask" } THEN "'" ELSE "\""

AbsRef(tag, attr, u) ==
    [tag |-> tag, attr |-> attr, abs |-> TRUE, url |-> u, parts |-> << >>,
     quote |-> QuoteOf(attr)]

RelRef(tag, attr, parts) ==
    [tag |-> tag, attr |-> attr, abs |-> FALSE, url |-> NO_URL, parts |-> parts,
     quote |-> QuoteOf(attr)]

\* the same reference as the document writes it, with another quote or none
Quoted(r, q) == [r EXCEPT !.quote = q]

\* the characters of a reference
RefString(r) == IF r.abs THEN UrlString(r.url) ELSE Join(r.parts)

\* the reference starts with "/": it is anchored at the root
RootAnchored(r) == ~r.abs /\ Len(r.parts) >= 2 /\ r.parts[1] = << >>

DATA_SCHEME == << "d", "a", "t", "a", ":" >>

\* the attributes of updateHtmlUrls' first pattern, and "style" for the url() of
\* an inline style, its second pattern
HTML_ATTRS == { "src", "href", "poster", "data", "background", "srcset", "content" }

\* updateHtmlUrls, on one reference
UpdateRef(r) ==
    IF r.attr \notin HTML_ATTRS \cup { "style" } THEN r
    ELSE IF StartsWith(RefString(r), DATA_SCHEME) THEN r
    ELSE IF r.abs
         THEN (IF isAllowedUrl(r.url)
               THEN RelRef(r.tag, r.attr, getRelativePath(r.url))
               ELSE r)
    ELSE IF r.attr = "srcset" THEN r
    ELSE LET safeUrl == SafeParts(r.parts)
         IN IF r.attr = "href" /\ ~Includes(Join(safeUrl), DOT)
                /\ Last(safeUrl) # << >>
            THEN RelRef(r.tag, r.attr,
                        [safeUrl EXCEPT ![Len(safeUrl)] = @ \o DOT_HTML])
            ELSE RelRef(r.tag, r.attr, safeUrl)

updateHtmlUrls(content) == [i \in DOMAIN content |-> UpdateRef(content[i])]

\* the absolute URL the browser gives for a reference of a document (a.href,
\* link.href, img.src)
ResolveRef(r, base) ==
    IF r.abs THEN r.url
    ELSE IF RootAnchored(r)
         THEN Url(base.protocol, base.hostname, r.parts, << >>, << >>)
         ELSE Url(base.protocol, base.hostname, Front(base.pathname) \o r.parts,
                  << >>, << >>)

\* path.relative(from, to)
PathRelative(from, to) ==
    LET f == Strip(from)
        t == Strip(to)
        common == CHOOSE k \in 0 .. Min(Len(f), Len(t)) :
                     /\ SubSeq(f, 1, k) = SubSeq(t, 1, k)
                     /\ k < Min(Len(f), Len(t)) => f[k + 1] # t[k + 1]
    IN [i \in 1 .. (Len(f) - common) |-> DOTDOT] \o SubSeq(t, common + 1, Len(t))

\* file.endsWith(ext)
FileEndsWith(file, ext) ==
    LET name == Last(file)
    IN Len(name) >= Len(ext) /\ SubSeq(name, Len(name) - Len(ext) + 1, Len(name)) = ext

DOT_CSS == << ".", "c", "s", "s" >>

\* getAllFiles(OUTPUT_DIR)
AllFiles(d) == { f \in DOMAIN d : d[f].kind = "file" }

-----------------------------------------------------------------------------
(* Resource downloads *)

MaxDepth == 2

S_DOTS == << ".", "." >>
S_ENC_DOTS == << "%", "2", "e", "." >>
S_DOT_COLON_DOT == << ".", ":", "." >>
S_COLON == << "a", ":" >>
S_STAR == << "a", "*" >>
S_JS == << "a", ".", "j", "s" >>
S_BRACKET == << "[", "a", "]" >>

\* the path segments of the URLs given to the path mapper
Segs == { S_A, S_DOTS, S_ENC_DOTS, S_DOT_COLON_DOT, S_COLON, S_JS, S_BRACKET }

Q_EQ == << "?", "v", "=", "1" >>
Q_DASH == << "?", "v", "-", "1" >>

\* URL strings as they reach the mapper, dot segments not yet resolved
MapUrls ==
    { Url(HTTPS, h, << << >> >> \o segs, q, << >>) :
        h \in { domain, CDN_JSDELIVR },
        segs \in UNION { [1 .. n -> Segs] : n \in 1 .. MaxDepth },
        q \in { << >>, Q_EQ } }

\* the URLs of the two-resource scenarios
PairUrls ==
    { Url(HTTPS, domain, << << >>, S_A >>, << >>, << >>),
      Url(HTTP, domain, << << >>, S_A >>, << >>, << >>),
      Url(HTTPS, CDN_JSDELIVR, << << >>, S_A >>, << >>, << >>),
      Url(HTTPS, domain, << << >>, S_COLON >>, << >>, << >>),
      Url(HTTPS, domain, << << >>, S_STAR >>, << >>, << >>),
      Url(HTTPS, domain, << << >>, S_JS >>, << >>, << >>),
      Url(HTTPS, domain, << << >>, S_JS, S_A >>, << >>, << >>),
      Url(HTTPS, domain, << << >>, S_JS >>, Q_EQ, << >>),
      Url(HTTPS, domain, << << >>, S_JS >>, Q_DASH, << >>) }

FetchOutcomes == { "ok", "error", "notOk" }
WriteOutcomes == { "ok", "enoentRetryOk", "enoentRetryFails", "otherError" }

\* response.text() and response.arrayBuffer(): the body of a response can be
\* read once, a second read rejects with a TypeError
BodyRead(bodyUsed) == IF bodyUsed THEN "typeError" ELSE "ok"

\* the file is written: by the first writeFileSync, or, after ENOENT, by the
\* second one, which comes after the content was obtained once more
Written(w, secondRead) == w = "ok" \/ (w = "enoentRetryOk" /\ secondRead = "ok")

\* what the server sends for a URL: the references of the document
Fetched(u) == IF u \in DOMAIN web THEN web[u] ELSE << >>

\* the response's content-type includes text/html: the URL is a page of the site
IsHtmlResponse(u) == u \in PageUrls

\* an entry of the history: a fetch of a URL (flag: the response was ok), a
\* write of the file of a URL, or the rewrite of a file by a pass (flag: the
\* content written differs from the content read)
Event(op, by, u, path, flag) ==
    [op |-> op, by |-> by, url |-> u, path |-> path, flag |-> flag]

\* a processedResources.has that never finds the URL
processedResourcesHasNot(u) == u \in { }

\* processedResources.has(normalizedUrl)
processedResourcesHas(u) == u \in processedResources

\* a processedResources.add that forgets the URL
processedResourcesForget(u) == processedResources

\* processedResources.add(normalizedUrl), before the fetch
processedResourcesAdd(u) == processedResources \cup { u }

\* downloadResource(resourceUrl, baseUrl)
downloadResource(resourceUrl) ==
    LET normalizedUrl == normalizeUrl(resourceUrl)
    IN IF processedResourcesHas(normalizedUrl) \/ ~isAllowedUrl(normalizedUrl)
       THEN UNCHANGED << processedResources, disk, saved, extractedResources,
                         requests, log >>
       ELSE /\ processedResources' = processedResourcesAdd(normalizedUrl)
            /\ LET r == ResourceLocalPath(normalizedUrl, disk)
                   text == IF IsHtmlResponse(normalizedUrl)
                           THEN updateHtmlUrls(Fetched(normalizedUrl))
                           ELSE Fetched(normalizedUrl)
                   fetched(f) == Append(log, Event("fetch", "downloadResource",
                                                   normalizedUrl, << >>, f = "ok"))
               IN IF ~r.ok
                  THEN UNCHANGED << disk, saved, extractedResources, requests, log >>
                  ELSE \E f \in FetchOutcomes :
                         /\ requests' = requests \cup { normalizedUrl.hostname }
                         /\ IF f # "ok"
                            THEN /\ disk' = r.disk
                                 /\ log' = fetched(f)
                                 /\ UNCHANGED << saved, extractedResources >>
                            ELSE \E w \in WriteOutcomes :
                                   /\ extractedResources' = extractedResources + 1
                                   /\ IF Written(w, BodyRead(TRUE))
                                         /\ WriteOk(r.disk, r.path)
                                      THEN /\ disk' = WriteFile(r.disk, r.path,
                                                         File("fetched", text))
                                           /\ saved' = Append(saved,
                                                 [url |-> normalizedUrl, path |-> r.path])
                                           /\ log' = Append(fetched(f),
                                                 Event("write", "downloadResource",
                                                       normalizedUrl, r.path, TRUE))
                                      ELSE /\ disk' = r.disk
                                           /\ saved' = saved
                                           /\ log' = IF Written(w, "ok")
                                                          /\ WriteOk(r.disk, r.path)
                                                     THEN Append(fetched(f),
                                                       Event("retry", "downloadResource",
                                                         normalizedUrl, r.path, TRUE))
                                                     ELSE fetched(f)

\* one call of downloadResource in the download scenarios
DownloadResource(resourceUrl) ==
    /\ step = "download"
    /\ downloadResource(resourceUrl)
    /\ UNCHANGED << url1, url2, step, web, todo, resourcesLeft >>
    /\ UNCHANGED crawlVars

\* no crawl is under way
LoopIdle ==
    /\ openPages = 0
    /\ args = << domain, IntString(0) >>
    /\ MAX_PAGES = maxPages(args)
    /\ site = [p \in PageUrls |-> { }]
    /\ pagesToProcess = << >>
    /\ processedPages = { }
    /\ processed = 0
    /\ links = << >>
    /\ pc = "idle"
    /\ renders = [p \in PageUrls |-> 0]
    /\ outcome = [p \in PageUrls |-> "none"]
    /\ pages = << >>
    /\ statsProcessedPages = 0

\* neither a crawl nor a bulk download is under way
CrawlIdle == LoopIdle /\ BulkIdle

\* the output directory as runScraper creates it
EmptyOutput == (<< OUTPUT_DIR >> :> DIR)

\* what a URL may find on disk: nothing, or a directory at its own local path
DiskChoices(u) ==
    LET localPath == WithIndex(PathJoin(<< OUTPUT_DIR >>, getRelativePath(u)))
    IN { EmptyOutput } \cup
       (IF MkdirOk(EmptyOutput, localPath) THEN { Mkdir(EmptyOutput, localPath) } ELSE { })

\* one URL, drawn from all the shapes of MapUrls
PathInit ==
    /\ CrawlIdle
    /\ requests = { }
    /\ log = << >>
    /\ web = NoWeb
    /\ todo = << >>
    /\ resourcesLeft = << >>
    /\ url1 \in MapUrls
    /\ url2 = url1
    /\ disk \in DiskChoices(url1)
    /\ processedResources = { }
    /\ saved = << >>
    /\ extractedResources = 0
    /\ step = "download"

\* two URLs, downloaded in either order into an empty output directory
MapInit ==
    /\ CrawlIdle
    /\ requests = { }
    /\ log = << >>
    /\ web = NoWeb
    /\ todo = << >>
    /\ resourcesLeft = << >>
    /\ url1 \in PairUrls
    /\ url2 \in PairUrls
    /\ disk = EmptyOutput
    /\ processedResources = { }
    /\ saved = << >>
    /\ extractedResources = 0
    /\ step = "download"

MapNext == \E u \in { url1, url2 } : DownloadResource(u)

PathSpec == PathInit /\ [][MapNext]_vars

MapSpec == MapInit /\ [][MapNext]_vars

\* C10: the relative path of a URL has no parent-directory segment, and every file
\* written for a URL lies below the output root.
C10_NoTraversal ==
    /\ \A i \in DOMAIN getRelativePath(url1) : getRelativePath(url1)[i] # DOTDOT
    /\ \A i \in DOMAIN saved :
          /\ Head(saved[i].path) = OUTPUT_DIR
          /\ \A k \in DOMAIN saved[i].path : saved[i].path[k] # DOTDOT
    /\ \A p \in DOMAIN disk : Head(p) = OUTPUT_DIR /\ \A k \in DOMAIN p : p[k] # DOTDOT

\* a URL whose path climbs above the root was saved
C10_Witness ==
    /\ saved # << >>
    /\ url1.pathname = << << >>, S_DOTS, S_ENC_DOTS >>

\* C8 as stated: two URLs that differ in origin, path or query are never saved at
\* the same local path.
C8_Injective ==
    \A i, j \in DOMAIN saved :
        saved[i].url # saved[j].url => saved[i].path # saved[j].path

\* C9 as stated: the local path of a URL is the same whatever was saved before
\* it: it is the path the URL gets in an empty output directory.
C9_Deterministic ==
    \A i \in DOMAIN saved :
        saved[i].path = ResourceLocalPath(saved[i].url, EmptyOutput).path

-----------------------------------------------------------------------------
(* The rewrite passes.  A run over a two-page site: the crawl loop hands the *)
(* pages of todo to processPage, which saves the rendered page and downloads *)
(* its resources one by one; then come the passes over the saved files.      *)

S_SHEET == << "s", ".", "c", "s", "s" >>
S_IMG == << "i", ".", "p", "n", "g" >>
S_FONT == << "f", ".", "w", "o", "f", "f" >>

SHEET_CDN == Url(HTTPS, CDN_JSDELIVR, << << >>, S_SHEET >>, << >>, << >>)
SHEET_LOCAL == Url(HTTPS, domain, << << >>, S_SHEET >>, << >>, << >>)

S_SOLID == << "s", "o", "l", "i", "d" >>
S_ICON == << "i", ".", "s", "v", "g" >>

\* an icon of the CDN, used as a mask image
ICON == Url(HTTPS, CDN_JSDELIVR, << << >>, S_SOLID, S_ICON >>, << >>, << >>)

\* the ways the root page may link to /a
NavRefs ==
    { RelRef("a", "href", << << >>, S_A >>),
      RelRef("a", "href", << S_A >>),
      AbsRef("a", "href", PAGE_A) }

\* the ways both pages may reference a resource
ResRefs ==
    { AbsRef("link", "href", SHEET_CDN),
      RelRef("link", "href", << << >>, S_SHEET >>),
      AbsRef("img", "src", Url(HTTPS, OTHER_HOST, << << >>, S_IMG >>, << >>, << >>)),
      RelRef("img", "src", << << >>, S_IMG >>) }

\* the ways the stylesheet may reference a font
CssRefs ==
    { AbsRef("css", "url", Url(HTTPS, OTHER_HOST, << << >>, S_FONT >>, << >>, << >>)),
      AbsRef("css", "url", Url(HTTPS, CDN_JSDELIVR, << << >>, S_FONT >>, << >>, << >>)),
      RelRef("css", "url", << << >>, S_FONT >>),
      RelRef("css", "import", << S_FONT >>),
      Quoted(RelRef("css", "url", << S_FONT >>), ""),
      AbsRef("css", "mask", ICON) }

\* the mask images of a stylesheet, which the browser loads for the icons of a
\* page that uses the stylesheet
SheetImages(sheet) ==
    LET ms == SelectSeq(Fetched(sheet), LAMBDA r : r.attr = "mask")
    IN [i \in DOMAIN ms |-> ResolveRef(ms[i], sheet)]

RECURSIVE Flatten(_)
Flatten(ss) == IF ss = << >> THEN << >> ELSE Head(ss) \o Flatten(Tail(ss))

\* the responses of the page itself and of the resources of its document
PageResources(p) ==
    LET rs == SelectSeq(web[p], LAMBDA r : r.tag \in { "script", "link", "img" })
        us == [i \in DOMAIN rs |-> ResolveRef(rs[i], p)]
    IN << p >> \o us \o Flatten([i \in DOMAIN us |-> SheetImages(us[i])])

\* the hosts the browser sends requests to for page.goto(p): the page's own and
\* those of the resources of the document, every request being continued
BrowserRequests(p) ==
    { p.hostname } \cup { PageResources(p)[i].hostname : i \in DOMAIN PageResources(p) }

\* an output directory that does not exist yet
NoOutput == [f \in { } |-> DIR]

\* if (!fs.existsSync(OUTPUT_DIR)) fs.mkdirSync(OUTPUT_DIR, { recursive: true }):
\* an error of mkdirSync is thrown out of runScraper
CreateOutputDir ==
    /\ step = "start"
    /\ IF Exists(disk, << OUTPUT_DIR >>)
       THEN /\ step' = "launch"
            /\ disk' = disk
       ELSE \E ok \in BOOLEAN :
              /\ step' = IF ok THEN "launch" ELSE "aborted"
              /\ disk' = IF ok THEN EmptyOutput ELSE disk
    /\ UNCHANGED << url1, url2, processedResources, saved, extractedResources,
                    web, todo, resourcesLeft, requests, log >>
    /\ UNCHANGED crawlVars

\* const browser = await puppeteer.launch(...), before the try block: an error
\* is thrown out of runScraper
Launch ==
    /\ step = "launch"
    /\ \E ok \in BOOLEAN :
          /\ step' = IF ok THEN "page" ELSE "aborted"
          /\ log' = Append(log, Event("launch", "runScraper", NO_URL, << >>, ok))
    /\ UNCHANGED << url1, url2, processedResources, disk, saved, extractedResources,
                    web, todo, resourcesLeft, requests >>
    /\ UNCHANGED crawlVars

\* page.goto(pageUrl, { waitUntil: 'networkidle2', timeout: 60000 })
GOTO_TIMEOUT == 60000

\* the timeout an awaited operation is given: page.goto has one, and
\* fetch(absoluteUrl) is called without options
TimeoutOption(op) == IF op = "goto" THEN { GOTO_TIMEOUT } ELSE { }

\* what the await of an operation gives: the answer of the server, or, when the
\* server never answers, the timeout error if the operation has a timeout
Await(op, answer) ==
    IF answer # "silent" THEN answer
    ELSE IF TimeoutOption(op) # { } THEN "timeout" ELSE "pending"

\* processPage up to the first download: render, rewrite, save
RenderPage ==
    /\ step = "page"
    /\ todo # << >>
    /\ LET pageUrl == Head(todo)
           normalizedUrl == normalizeUrl(pageUrl)
           content == updateHtmlUrls(web[normalizedUrl])
           r == ResourceLocalPath(normalizedUrl, disk)
       IN \E o \in { Await("goto", a) : a \in { "ok", "navError", "silent" } },
             w \in WriteOutcomes :
            IF o = "ok" /\ r.ok /\ Written(w, BodyRead(FALSE))
               /\ WriteOk(r.disk, r.path)
            THEN /\ disk' = WriteFile(r.disk, r.path, File("rendered", content))
                 /\ saved' = Append(saved, [url |-> normalizedUrl, path |-> r.path])
                 /\ log' = log \o << Event("goto", "processPage", pageUrl, << >>, TRUE),
                                      Event("write", "processPage", normalizedUrl,
                                            r.path, TRUE) >>
                 /\ resourcesLeft' = PageResources(normalizedUrl)
                 /\ requests' = requests \cup BrowserRequests(normalizedUrl)
            ELSE /\ disk' = IF o = "ok" /\ r.ok THEN r.disk ELSE disk
                 /\ saved' = saved
                 /\ log' = Append(log, Event("goto", "processPage", pageUrl, << >>,
                                             o = "ok"))
                 /\ resourcesLeft' = << >>
                 /\ requests' = requests \cup
                       (IF o = "ok" THEN BrowserRequests(normalizedUrl)
                        ELSE { normalizedUrl.hostname })
    /\ todo' = Tail(todo)
    /\ step' = "resources"
    /\ UNCHANGED << url1, url2, processedResources, extractedResources, web >>
    /\ UNCHANGED crawlVars

\* processPage's loop over the resources: one awaited downloadResource
FetchResource ==
    /\ step = "resources"
    /\ resourcesLeft # << >>
    /\ downloadResource(Head(resourcesLeft))
    /\ resourcesLeft' = Tail(resourcesLeft)
    /\ UNCHANGED << url1, url2, step, web, todo >>
    /\ UNCHANGED crawlVars

\* downloadResource, called for a URL whose server never answers: the call
\* goes up to await fetch(absoluteUrl)
FetchSilent ==
    /\ step = "resources"
    /\ resourcesLeft # << >>
    /\ LET normalizedUrl == normalizeUrl(Head(resourcesLeft))
           r == ResourceLocalPath(normalizedUrl, disk)
       IN /\ ~processedResourcesHas(normalizedUrl)
          /\ isAllowedUrl(normalizedUrl)
          /\ r.ok
          /\ processedResources' = processedResourcesAdd(normalizedUrl)
          /\ disk' = r.disk
          /\ requests' = requests \cup { normalizedUrl.hostname }
          /\ IF Await("fetch", "silent") = "pending"
             THEN /\ step' = "blocked"
                  /\ log' = log
                  /\ resourcesLeft' = resourcesLeft
             ELSE /\ step' = step
                  /\ log' = Append(log, Event("fetch", "downloadResource",
                                              normalizedUrl, << >>, FALSE))
                  /\ resourcesLeft' = Tail(resourcesLeft)
    /\ UNCHANGED << url1, url2, saved, extractedResources, web, todo >>
    /\ UNCHANGED crawlVars

\* a fetch that waits without a timeout ends only if the runtime gives the
\* connection up by itself; fetch then rejects and downloadResource returns
RuntimeGivesUp ==
    /\ step = "blocked"
    /\ step' = "resources"
    /\ log' = Append(log, Event("fetch", "downloadResource",
                                normalizeUrl(Head(resourcesLeft)), << >>, FALSE))
    /\ resourcesLeft' = Tail(resourcesLeft)
    /\ UNCHANGED << url1, url2, processedResources, disk, saved, extractedResources,
                    web, todo, requests >>
    /\ UNCHANGED crawlVars

\* the files a pass reads and writes back
FilesEndingWith(d, ext) == { f \in AllFiles(d) : FileEndsWith(f, ext) }

\* the files of a set, in the order the pass visits them
RECURSIVE SeqOf(_)
SeqOf(S) ==
    IF S = { } THEN << >>
    ELSE LET x == CHOOSE y \in S : TRUE IN << x >> \o SeqOf(S \ { x })

\* the history of a pass that wrote the files of written back, old and new being
\* the file system before and after it
PassLog(by, written, old, new) ==
    LET files == SeqOf(written)
    IN log \o [i \in DOMAIN files |->
                 Event("rewrite", by, NO_URL, files[i], new[files[i]] # old[files[i]])]

\* a processPage that ends with a rewrite pass over the saved markup
PageDoneRewriting ==
    /\ step = "resources"
    /\ resourcesLeft = << >>
    /\ disk' = [f \in DOMAIN disk |->
                  IF f \in FilesEndingWith(disk, DOT_HTML)
                  THEN [disk[f] EXCEPT !.refs = updateHtmlUrls(@)]
                  ELSE disk[f]]
    /\ log' = PassLog("processAllHtmlFiles",
                      { f \in FilesEndingWith(disk, DOT_HTML) :
                          updateHtmlUrls(disk[f].refs) # disk[f].refs },
                      disk, disk')
    /\ step' = IF todo = << >> THEN "allHtml" ELSE "page"
    /\ UNCHANGED << url1, url2, processedResources, saved, extractedResources,
                    web, todo, resourcesLeft, requests >>
    /\ UNCHANGED crawlVars

\* a processPage whose failures end the run
PageDoneThrowing ==
    /\ step = "resources"
    /\ resourcesLeft = << >>
    /\ step' = IF \E i \in DOMAIN log : ~log[i].flag THEN "aborted"
               ELSE IF todo = << >> THEN "allHtml" ELSE "page"
    /\ UNCHANGED << url1, url2, processedResources, disk, saved, extractedResources,
                    web, todo, resourcesLeft, requests, log >>
    /\ UNCHANGED crawlVars

\* processPage returns; the crawl loop goes on, or the passes start
PageDone ==
    /\ step = "resources"
    /\ resourcesLeft = << >>
    /\ step' = IF todo = << >> THEN "allHtml" ELSE "page"
    /\ UNCHANGED << url1, url2, processedResources, disk, saved, extractedResources,
                    web, todo, resourcesLeft, requests, log >>
    /\ UNCHANGED crawlVars

\* processAllHtmlFiles: updateHtmlUrls once more over every .html file, written
\* back if (content !== updatedContent)
ProcessAllHtmlFiles ==
    /\ step = "allHtml"
    /\ disk' = [f \in DOMAIN disk |->
                  IF f \in FilesEndingWith(disk, DOT_HTML)
                  THEN [disk[f] EXCEPT !.refs = updateHtmlUrls(@)]
                  ELSE disk[f]]
    /\ log' = PassLog("processAllHtmlFiles",
                      { f \in FilesEndingWith(disk, DOT_HTML) :
                          updateHtmlUrls(disk[f].refs) # disk[f].refs },
                      disk, disk')
    /\ step' = "htmlFiles"
    /\ UNCHANGED << url1, url2, processedResources, saved, extractedResources,
                    web, todo, resourcesLeft, requests >>
    /\ UNCHANGED crawlVars

\* processHtmlFiles: the entries a file adds to resourceUrlMap
MapEntries(file) ==
    LET relativePath == Tail(file)
    IN IF Head(relativePath) = ASSETS /\ Len(relativePath) >= 2
       THEN IF Len(relativePath) >= 3
            THEN LET resourcePath ==
                         << "/" >> \o Join(SubSeq(relativePath, 3, Len(relativePath)))
                 IN { [key |-> HTTPS \o << "/", "/" >> \o relativePath[2] \o resourcePath,
                       path |-> relativePath],
                      [key |-> resourcePath, path |-> relativePath] }
            ELSE { }
       ELSE { [key |-> UrlString(BASE_URL) \o << "/" >> \o Join(relativePath),
               path |-> relativePath],
              [key |-> << "/" >> \o Join(relativePath), path |-> relativePath] }

resourceUrlMap(d) == UNION { MapEntries(f) : f \in AllFiles(d) }

\* processHtmlFiles on one reference of htmlFile: a reference that is exactly a
\* key of the map becomes the path from the file's directory to the mapped file
\* (of two files with the same key, one is taken)
HtmlFileRef(d, htmlFile, r) ==
    LET entries == { e \in resourceUrlMap(d) : e.key = RefString(r) }
        localPath == (CHOOSE e \in entries : TRUE).path
        htmlRelativeDir == Dirname(Tail(htmlFile))
    IN IF r.attr \in { "href", "src", "background", "content", "style" }
          /\ entries # { }
       THEN RelRef(r.tag, r.attr,
                   PathRelative(PathJoin(<< OUTPUT_DIR >>, htmlRelativeDir),
                                PathJoin(<< OUTPUT_DIR >>, localPath)))
       ELSE r

ProcessHtmlFiles ==
    /\ step = "htmlFiles"
    /\ disk' = [f \in DOMAIN disk |->
                  IF f \in FilesEndingWith(disk, DOT_HTML)
                  THEN [disk[f] EXCEPT !.refs =
                           [i \in DOMAIN @ |-> HtmlFileRef(disk, f, @[i])]]
                  ELSE disk[f]]
    /\ log' = PassLog("processHtmlFiles",
                      { f \in FilesEndingWith(disk, DOT_HTML) :
                          \E i \in DOMAIN disk[f].refs :
                             HtmlFileRef(disk, f, disk[f].refs[i]) # disk[f].refs[i] },
                      disk, disk')
    /\ step' = "maskScan"
    /\ UNCHANGED << url1, url2, processedResources, saved, extractedResources,
                    web, todo, resourcesLeft, requests >>
    /\ UNCHANGED crawlVars

DOT_JS == << ".", "j", "s" >>

\* the files downloadMaskedSvgResources scans and rewrites
MaskFiles(d) ==
    FilesEndingWith(d, DOT_CSS) \cup FilesEndingWith(d, DOT_HTML)
        \cup FilesEndingWith(d, DOT_JS)

\* the mask-image references of a file that downloadMaskedSvgResources takes up
MaskRefs(d, f) ==
    { d[f].refs[i] : i \in { k \in DOMAIN d[f].refs :
          /\ d[f].refs[k].attr = "mask"
          /\ ~StartsWith(RefString(d[f].refs[k]), DATA_SCHEME)
          /\ d[f].refs[k].abs \/ RootAnchored(d[f].refs[k]) } }

\* the URL downloadMaskedSvgResources makes of a mask-image reference
MaskFullUrl(r) ==
    IF r.abs THEN r.url
    ELSE Url(HTTPS, domain,
             IF Len(r.parts) >= 3 /\ r.parts[2] = ASSETS
             THEN << << >> >> \o SubSeq(r.parts, 3, Len(r.parts))
             ELSE r.parts,
             << >>, << >>)

maskedUrls(d) == UNION { { MaskFullUrl(r) : r \in MaskRefs(d, f) } : f \in MaskFiles(d) }

\* the icon folders whose URLs downloadMaskedSvgResources downloads
MASK_FOLDERS ==
    { << "/", "d", "u", "o", "t", "o", "n", "e", "/" >>,
      << "/", "r", "e", "g", "u", "l", "a", "r", "/" >>,
      << "/", "s", "o", "l", "i", "d", "/" >>,
      << "/", "b", "r", "a", "n", "d", "s", "/" >> }

\* downloadMaskedSvgResources: the scan of the saved files for mask images
ScanMasks ==
    /\ step = "maskScan"
    /\ resourcesLeft' = SeqOf(maskedUrls(disk))
    /\ step' = "mask"
    /\ UNCHANGED << url1, url2, processedResources, disk, saved, extractedResources,
                    web, todo, requests, log >>
    /\ UNCHANGED crawlVars

\* downloadMaskedSvgResources: the download of one of the URLs found
FetchMasked ==
    /\ step = "mask"
    /\ resourcesLeft # << >>
    /\ LET url == Head(resourcesLeft)
           localPath == PathJoin(<< OUTPUT_DIR >>, getRelativePath(url))
           dir == Dirname(localPath)
       IN IF \/ ~\E m \in MASK_FOLDERS : Includes(UrlString(url), m)
             \/ ~isAllowedUrl(url)
             \/ Exists(disk, Strip(localPath))
             \/ ~MkdirOk(disk, dir)
          THEN UNCHANGED << disk, saved, requests, log >>
          ELSE \E f \in FetchOutcomes, w \in { "ok", "otherError" } :
                 LET fetched == Append(log, Event("fetch", "downloadMaskedSvgResources",
                                                  normalizeUrl(url), << >>, f = "ok"))
                 IN /\ requests' = requests \cup { ParseUrl(url).hostname }
                    /\ IF f = "ok" /\ w = "ok" /\ WriteOk(Mkdir(disk, dir), localPath)
                       THEN /\ disk' = WriteFile(Mkdir(disk, dir), localPath,
                                          File("fetched", Fetched(normalizeUrl(url))))
                            /\ saved' = Append(saved, [url |-> normalizeUrl(url),
                                                       path |-> localPath])
                            /\ log' = Append(fetched,
                                  Event("write", "downloadMaskedSvgResources",
                                        normalizeUrl(url), localPath, TRUE))
                       ELSE /\ disk' = Mkdir(disk, dir)
                            /\ saved' = saved
                            /\ log' = fetched
    /\ resourcesLeft' = Tail(resourcesLeft)
    /\ UNCHANGED << url1, url2, processedResources, extractedResources, step, web, todo >>
    /\ UNCHANGED crawlVars

\* the mask-image replacement, on one reference: `/assets/${url.split('//')[1]}`
MaskRef(r) ==
    LET pn == r.url.pathname
        rest == IF Len(pn) <= 1 THEN << >>
                ELSE [Tail(pn) EXCEPT ![Len(pn) - 1] = @ \o r.url.search \o r.url.hash]
    IN IF r.attr = "mask" /\ r.abs /\ isAllowedUrl(r.url)
       THEN Quoted(RelRef(r.tag, r.attr, << << >>, ASSETS, r.url.hostname >> \o rest),
                   r.quote)
       ELSE r

\* downloadMaskedSvgResources: the replacement of the mask-image references, a
\* file being written back if (originalContent !== content)
ReplaceMasks ==
    /\ step = "mask"
    /\ resourcesLeft = << >>
    /\ disk' = [f \in DOMAIN disk |->
                  IF f \in MaskFiles(disk)
                  THEN [disk[f] EXCEPT !.refs = [i \in DOMAIN @ |-> MaskRef(@[i])]]
                  ELSE disk[f]]
    /\ log' = PassLog("downloadMaskedSvgResources",
                      { f \in MaskFiles(disk) :
                          \E i \in DOMAIN disk[f].refs :
                             MaskRef(disk[f].refs[i]) # disk[f].refs[i] },
                      disk, disk')
    /\ step' = "css"
    /\ UNCHANGED << url1, url2, processedResources, saved, extractedResources,
                    web, todo, resourcesLeft, requests >>
    /\ UNCHANGED crawlVars

\* processCssFiles on one @import or url() of cssFile
CssFileRef(cssFile, r) ==
    LET cssRelativeDir == Dirname(Tail(cssFile))
        basePath == IF cssRelativeDir = << >> THEN << << >> >> ELSE cssRelativeDir
        fullUrl == IF r.abs THEN r.url
                   ELSE IF r.parts # << >> /\ r.parts[1] = << >>
                   THEN Url(HTTPS, domain, r.parts, << >>, << >>)
                   ELSE Url(HTTPS, domain, << << >> >> \o basePath \o r.parts,
                            << >>, << >>)
        localResourcePath == getRelativePath(fullUrl)
    IN IF r.attr \notin { "import", "url", "mask" } THEN r
       ELSE IF r.attr # "import" /\ StartsWith(RefString(r), DATA_SCHEME) THEN r
       ELSE RelRef(r.tag, r.attr,
                   PathRelative(PathJoin(<< OUTPUT_DIR >>, cssRelativeDir),
                                PathJoin(<< OUTPUT_DIR >>, localResourcePath)))

\* processCssFiles counts a replacement for this reference (replacementsMade++)
CssReplaced(r) ==
    \/ r.attr = "import"
    \/ r.attr \in { "url", "mask" } /\ ~StartsWith(RefString(r), DATA_SCHEME)

\* processCssFiles: a file is written back if (replacementsMade > 0)
ProcessCssFiles ==
    /\ step = "css"
    /\ disk' = [f \in DOMAIN disk |->
                  IF f \in FilesEndingWith(disk, DOT_CSS)
                  THEN [disk[f] EXCEPT !.refs = [i \in DOMAIN @ |-> CssFileRef(f, @[i])]]
                  ELSE disk[f]]
    /\ log' = PassLog("processCssFiles",
                      { f \in FilesEndingWith(disk, DOT_CSS) :
                          \E i \in DOMAIN disk[f].refs : CssReplaced(disk[f].refs[i]) },
                      disk, disk')
    /\ step' = "done"
    /\ UNCHANGED << url1, url2, processedResources, saved, extractedResources,
                    web, todo, resourcesLeft, requests >>
    /\ UNCHANGED crawlVars

RewriteInit ==
    /\ CrawlIdle
    /\ url1 = BASE_URL
    /\ url2 = BASE_URL
    /\ \E nav \in NavRefs, res \in ResRefs, font \in CssRefs :
          web = (Document(BASE_URL) :> << nav, res >>) @@ (PAGE_A :> << res >>)
                  @@ (SHEET_CDN :> << font >>) @@ (SHEET_LOCAL :> << font >>)
    /\ todo \in { << BASE_URL >>, << BASE_URL, PAGE_A >> }
    /\ resourcesLeft = << >>
    /\ processedResources = { }
    /\ disk \in { NoOutput, EmptyOutput }
    /\ saved = << >>
    /\ extractedResources = 0
    /\ requests = { }
    /\ log = << >>
    /\ step = "start"

RewriteNext ==
    \/ CreateOutputDir
    \/ Launch
    \/ RenderPage
    \/ FetchResource
    \/ FetchSilent
    \/ RuntimeGivesUp
    \/ PageDone
    \/ ProcessAllHtmlFiles
    \/ ProcessHtmlFiles
    \/ ScanMasks
    \/ FetchMasked
    \/ ReplaceMasks
    \/ ProcessCssFiles

RewriteSpec == RewriteInit /\ [][RewriteNext]_vars

\* the references an artifact was saved from, and those it holds now
Original(i) == Fetched(saved[i].url)
Now(i) == disk[saved[i].path].refs

\* the local file a reference of the artifact at fromFile denotes, the output
\* directory being the root of the mirror
Target(r, fromFile) ==
    IF RootAnchored(r) THEN PathJoin(<< OUTPUT_DIR >>, r.parts)
    ELSE PathJoin(Dirname(fromFile), r.parts)

\* the reference leads to the file, directly or as the index of its directory
Denotes(r, fromFile, file) ==
    /\ ~r.abs
    /\ \/ Strip(Target(r, fromFile)) = file
       \/ PathJoin(Strip(Target(r, fromFile)), << INDEX_HTML >>) = file

\* C4 as stated: after the run, a navigation link of a saved page whose target
\* page was saved too denotes the file of the target page.
C4_LinksResolve ==
    step = "done" =>
        \A i, j \in DOMAIN saved : \A k \in DOMAIN Original(i) :
            ( /\ k \in DOMAIN Now(i)
              /\ Original(i)[k].tag = "a"
              /\ saved[j].url = Document(ResolveRef(Original(i)[k], saved[i].url)) )
            => Denotes(Now(i)[k], saved[i].path, saved[j].path)

\* C5 as stated: a saved .html file, which updateHtmlUrls has rewritten once, is
\* left as it is by a second application, the one processAllHtmlFiles makes.
C5_Idempotent ==
    step \in { "page", "resources", "allHtml" } =>
        \A f \in AllFiles(disk) :
            FileEndsWith(f, DOT_HTML) => updateHtmlUrls(disk[f].refs) = disk[f].refs

\* C6 as stated: after the run, a reference that a pass has rewritten is never
\* anchored at the output root, and two pages at different depths never hold the
\* same rewritten reference to one resource.
C6_RelativeToArtifact ==
    step = "done" =>
    /\ \A i \in DOMAIN saved : \A k \in DOMAIN Original(i) :
          (k \in DOMAIN Now(i) /\ Now(i)[k] # Original(i)[k])
          => ~RootAnchored(Now(i)[k])
    /\ \A i, j \in DOMAIN saved : \A k \in DOMAIN Original(i), l \in DOMAIN Original(j) :
          ( /\ k \in DOMAIN Now(i) /\ l \in DOMAIN Now(j)
            /\ Len(saved[i].path) # Len(saved[j].path)
            /\ Original(i)[k] = Original(j)[l]
            /\ Now(i)[k] # Original(i)[k]
            /\ Now(j)[l] # Original(j)[l] )
          => Now(i)[k] # Now(j)[l]

\* C7 as stated: after the run, a reference whose URL has no saved file is as it
\* was in the document.
C7_UnsavedUntouched ==
    step = "done" =>
        \A i \in DOMAIN saved : \A k \in DOMAIN Original(i) :
            ( /\ k \in DOMAIN Now(i)
              /\ \A j \in DOMAIN saved :
                    saved[j].url # normalizeUrl(ResolveRef(Original(i)[k], saved[i].url)) )
            => Now(i)[k] = Original(i)[k]


(***************************************************************************)
(* Failed renders                                                          *)
(***************************************************************************)

\* the pages whose render failed in page.goto (navigation error or timeout)
NavFailed == { p \in PageUrls : outcome[p] = "navError" }

\* the pages processPage tried to render, the failed ones included
Attempted == { p \in PageUrls : outcome[p] # "none" }

\* a step in which the render of a page fails
NavFails == \E p \in PageUrls : outcome[p] # "navError" /\ outcome'[p] = "navError"

\* C14: a page whose render fails (navigation error or timeout) stays failed
\* and is not rendered again: it was rendered once, is in processedPages and has
\* no page record; it counts as a processed page, so that with a budget N >= 0
\* not more than N pages are attempted; and the failure only consumes that
\* page: the loop goes on to the enqueue step with no links, the other pending
\* targets still in the queue.
C14_FailedPageCounted ==
    /\ [](\A p \in NavFailed :
             /\ renders[p] = 1
             /\ p \in processedPages
             /\ \A i \in DOMAIN pages : Document(pages[i].url) # p)
    /\ [](/\ processed + (IF pc = "enqueue" THEN 1 ELSE 0) >= Cardinality(Attempted)
          /\ MAX_PAGES >= 0 => Cardinality(Attempted) <= MAX_PAGES)
    /\ [][NavFails => /\ pc' = "enqueue"
                      /\ links' = << >>
                      /\ pagesToProcess' = Tail(pagesToProcess)
                      /\ processed' = processed]_vars
    /\ [][(pc = "enqueue" /\ links = << >>)
             => /\ pc' = "loop"
                /\ processed' = processed + 1
                /\ pagesToProcess' = pagesToProcess]_vars

\* the render of /a failed, it was counted, and the loop is at its head with
\* /b pending and the loop condition true
C14_Witness ==
    /\ pc = "loop"
    /\ outcome[Document(PAGE_A)] = "navError"
    /\ outcome[Document(PAGE_B)] = "none"
    /\ processed = 2
    /\ pagesToProcess = << PAGE_B >>
    /\ LoopCondition

(***************************************************************************)
(* The page budget                                                         *)
(***************************************************************************)

\* C15: with a negative maxPages, -1 or any other, no page budget limits the
\* crawl: when the crawl loop has stopped, no pending target remains.
C15_NegativeUnlimited == (MAX_PAGES < 0 /\ pc = "passes") => pagesToProcess = << >>

\* C16: invoked without a maxPages argument, the archiver runs with the
\* documented default budget of 5: the crawl loop ran under that budget and
\* rendered at most 5 pages.
C16_DefaultBudget ==
    (Len(args) < 2 /\ pc = "passes")
        => (MAX_PAGES = DEFAULT_MAX_PAGES /\ Rendered <= DEFAULT_MAX_PAGES)

(***************************************************************************)
(* Network egress                                                          *)
(***************************************************************************)

\* the requests the archiver issues itself: page.goto and fetch()
Issued == { i \in DOMAIN log : log[i].op \in { "goto", "fetch" } }

Fetches == { i \in DOMAIN log : log[i].op = "fetch" }

\* the writes of resource files (the page writes of processPage are not)
ResourceWrites == { i \in DOMAIN log : log[i].op = "write" /\ log[i].by # "processPage" }

ByDownloadResource == { i \in DOMAIN log : log[i].by = "downloadResource" }

FailedFetch(i) == i \in Fetches /\ ~log[i].flag

\* C13 as stated: after a failed fetch of a URL, no fetch of that URL is
\* attempted at any later point of the run.
C13_Original ==
    \A i, j \in Fetches : (FailedFetch(i) /\ i < j) => log[i].url # log[j].url

\* a step in which a fetch of downloadResource fails
FetchFails ==
    /\ Len(log') = Len(log) + 1
    /\ log'[Len(log')].op = "fetch"
    /\ log'[Len(log')].by = "downloadResource"
    /\ ~log'[Len(log')].flag

\* C13: a resource whose fetch in downloadResource fails is failed at once:
\* downloadResource attempts no second fetch of that URL later in the run, also
\* when a later page references it, and the failure ends neither the loop over
\* the resources of the page nor the crawl: only that resource is consumed,
\* nothing is saved for it, and the pending pages stay pending.
C13_FailedOnce ==
    /\ [](\A i, j \in Fetches \cap ByDownloadResource :
             (FailedFetch(i) /\ i < j) => log[i].url # log[j].url)
    /\ [][FetchFails => /\ resourcesLeft' = Tail(resourcesLeft)
                        /\ todo' = todo
                        /\ step' = "resources"
                        /\ saved' = saved]_vars

\* the fetch of a resource failed while the first of two pages that reference
\* it was processed, and the second page was rendered and saved afterwards
C13_Witness ==
    /\ step = "done"
    /\ \E i \in Fetches \cap ByDownloadResource, j \in DOMAIN log :
          /\ FailedFetch(i)
          /\ i < j
          /\ log[j].op = "write" /\ log[j].by = "processPage"
          /\ \E n \in DOMAIN web[log[j].url] :
                /\ web[log[j].url][n].abs
                /\ normalizeUrl(web[log[j].url][n].url) = log[i].url


(***************************************************************************)
(* Order of downloading and rewriting                                      *)
(***************************************************************************)

\* the writes of the rewrite passes
Rewrites == { i \in DOMAIN log : log[i].op = "rewrite" }

Launches == { i \in DOMAIN log : log[i].op = "launch" }

\* C18 as stated: the run aborts only when the output root cannot be created,
\* that is, before the browser is launched.
C18_Original == step = "aborted" => Launches = { }

\* the order of the phases of a run
PhaseOrder ==
    { << "start", "launch" >>, << "launch", "page" >>, << "page", "resources" >>,
      << "resources", "page" >>, << "resources", "allHtml" >>,
      << "allHtml", "htmlFiles" >>, << "htmlFiles", "maskScan" >>,
      << "maskScan", "mask" >>, << "mask", "css" >>, << "css", "done" >>,
      << "resources", "blocked" >>, << "blocked", "resources" >> }

\* C18: a run aborts only when the output root cannot be created or the
\* browser cannot be launched; an aborted run has rendered no page, fetched no
\* resource and written no file, and when the output root failed it has not
\* launched the browser; after the launch no failure (render, fetch, write)
\* aborts the run: every step goes on to the same or the next phase.
C18_OnlyStartFatal ==
    /\ [](step = "aborted" =>
             /\ requests = { }
             /\ saved = << >>
             /\ \A i \in DOMAIN log : i \in Launches /\ ~log[i].flag
             /\ ~Exists(disk, << OUTPUT_DIR >>) => Launches = { })
    /\ [][step' = "aborted" => step \in { "start", "launch" }]_vars
    /\ [][(step \notin { "start", "launch" } /\ step' # step)
             => << step, step' >> \in PhaseOrder]_vars

\* a run in which a render, a fetch and the write of a fetched resource failed,
\* and which went through every later phase
C18_Witness ==
    /\ step = "done"
    /\ \E i \in DOMAIN log : log[i].op = "goto" /\ ~log[i].flag
    /\ \E i \in Fetches : ~log[i].flag
    /\ \E i \in Fetches :
          /\ log[i].flag
          /\ \A j \in ResourceWrites : log[j].url # log[i].url
    /\ \E i \in Rewrites : log[i].by = "processCssFiles"


(***************************************************************************)
(* Writing back                                                            *)
(***************************************************************************)

\* C19: a rewrite pass writes a file back only if its content changed: every
\* write of a pass (markup, mask-image and stylesheet passes) leaves a content
\* that differs from the content the pass read.
C19_WrittenOnlyIfChanged == \A i \in Rewrites : log[i].flag


(***************************************************************************)
(* Fragments and trailing slashes                                          *)
(***************************************************************************)

\* https://d.t/a/ : the page /a written with a trailing slash
PAGE_A_SLASH == Url(HTTPS, domain, << << >>, S_A, << >> >>, << >>, << >>)

\* the hrefs of a site that links to /a in its four spellings
SlashLinkUrls ==
    { PAGE_A, [PAGE_A EXCEPT !.hash = FRAG],
      PAGE_A_SLASH, [PAGE_A_SLASH EXCEPT !.hash = FRAG] }

SlashPageUrls == { Document(l) : l \in SlashLinkUrls } \cup { Document(BASE_URL) }

SlashLinkSets == { ls \in SUBSET SlashLinkUrls : Cardinality(ls) <= MaxLinks }

\* runScraper started on that site, without a budget or with the largest one
SlashInit ==
    /\ args \in { << domain >>, << domain, IntString(MaxBudget) >> }
    /\ requests = { }
    /\ MAX_PAGES = maxPages(args)
    /\ site \in [SlashPageUrls -> SlashLinkSets]
    /\ pagesToProcess = << BASE_URL >>
    /\ processedPages = { }
    /\ processed = 0
    /\ links = << >>
    /\ pc = "loop"
    /\ renders = [p \in SlashPageUrls |-> 0]
    /\ outcome = [p \in SlashPageUrls |-> "none"]
    /\ pages = << >>
    /\ statsProcessedPages = 0
    /\ openPages = 0
    /\ BulkIdle
    /\ MapIdle

SlashSpec == SlashInit /\ [][Next]_vars

\* C20 as stated: the spellings of a page URL that differ only by the fragment
\* or only by a trailing slash are one crawl target: at most one render happens
\* between them.
C20_Original == renders[Document(PAGE_A)] + renders[Document(PAGE_A_SLASH)] <= 1

\* C20: two page URLs that differ only by their fragment normalize to the same
\* dedup key and are one crawl target: between them at most one render happens
\* in a run; a trailing slash is kept by the normalization.
C20_FragmentOneTarget ==
    /\ \A l \in SlashLinkUrls : normalizeUrl(l) = normalizeUrl(Document(l))
    /\ \A l \in SlashLinkUrls : renders[Document(l)] <= 1
    /\ normalizeUrl(PAGE_A_SLASH) # normalizeUrl(PAGE_A)

\* the seed links to /a and to /a#s, the crawl is over and /a was rendered once
C20_Witness ==
    /\ pc = "passes"
    /\ site[Seed] = { PAGE_A, [PAGE_A EXCEPT !.hash = FRAG] }
    /\ outcome[Seed] = "ok"
    /\ renders[Document(PAGE_A)] = 1


(***************************************************************************)
(* Query strings                                                           *)
(***************************************************************************)

Q_TWO == << "?", "v", "=", "2" >>

\* /\.(png|jpg|jpeg|gif|svg|webp|ico|avif)/
IMAGE_EXTENSIONS ==
    { << ".", "p", "n", "g" >>,
      << ".", "j", "p", "g" >>,
      << ".", "j", "p", "e", "g" >>,
      << ".", "g", "i", "f" >>,
      << ".", "s", "v", "g" >>,
      << ".", "w", "e", "b", "p" >>,
      << ".", "i", "c", "o" >>,
      << ".", "a", "v", "i", "f" >> }

\* /\.(woff|woff2|ttf|otf|eot)/
FONT_EXTENSIONS ==
    { << ".", "w", "o", "f", "f" >>,
      << ".", "w", "o", "f", "f", "2" >>,
      << ".", "t", "t", "f" >>,
      << ".", "o", "t", "f" >>,
      << ".", "e", "o", "t" >> }

\* categorizeResource(url): url.toLowerCase() is the URL itself, the URLs of the
\* model being written in lower case
categorizeResource(u) ==
    LET lowerUrl == UrlString(u)
    IN IF Includes(lowerUrl, DOT_CSS) \/ Includes(lowerUrl, << "t", "e", "x", "t", "/", "c", "s", "s" >>)
       THEN "css"
       ELSE IF Includes(lowerUrl, DOT_JS) \/ Includes(lowerUrl, << "j", "a", "v", "a", "s", "c", "r", "i", "p", "t" >>)
       THEN "js"
       ELSE IF \E e \in IMAGE_EXTENSIONS : Includes(lowerUrl, e) THEN "image"
       ELSE IF \E e \in FONT_EXTENSIONS : Includes(lowerUrl, e) THEN "font"
       ELSE "other"

\* a page, a font, a script and an image of the archived domain, without a
\* query and with two queries
QueryUrls ==
    { Url(HTTPS, domain, << << >>, seg >>, q, << >>) :
        seg \in { S_A, S_FONT, S_JS, S_IMG }, q \in { << >>, Q_EQ, Q_TWO } }

\* two of these URLs, downloaded in either order into an empty output directory
QueryInit ==
    /\ CrawlIdle
    /\ requests = { }
    /\ log = << >>
    /\ web = NoWeb
    /\ todo = << >>
    /\ resourcesLeft = << >>
    /\ url1 \in QueryUrls
    /\ url2 \in QueryUrls
    /\ disk = EmptyOutput
    /\ processedResources = { }
    /\ saved = << >>
    /\ extractedResources = 0
    /\ step = "download"

QuerySpec == QueryInit /\ [][MapNext]_vars

\* C21: of two saved URLs that differ only in the query, those of the categories
\* stylesheet, script, image and font have different local paths, and the others
\* (pages) have the same local path.
C21_QueryByCategory ==
    \A i, j \in DOMAIN saved :
        (/\ saved[i].url # saved[j].url
         /\ [saved[i].url EXCEPT !.search = << >>] = [saved[j].url EXCEPT !.search = << >>])
            => IF categorizeResource(saved[i].url) \in { "css", "js", "image", "font" }
               THEN saved[i].path # saved[j].path
               ELSE saved[i].path = saved[j].path


(***************************************************************************)
(* Timeouts                                                                *)
(***************************************************************************)

\* C22: every page render and every resource fetch carries a timeout, so that
\* an operation whose server never answers becomes a failure after a bounded
\* wait: the run is never left waiting on a render or a fetch.
C22_NeverBlocked == step # "blocked"


(***************************************************************************)
(* The retry of a write                                                    *)
(***************************************************************************)

\* the second write attempts of downloadResource, after ENOENT, for which the
\* directory was created again and the file system took the write
Retries == { i \in DOMAIN log : log[i].op = "retry" }

\* C23: when the write of a fetched resource fails because the parent
\* directory is missing, the directory is created again and the write is tried
\* once more, and that second attempt can succeed: whenever the directory could
\* be created and the file system takes the second write, the resource is
\* written.
C23_RetryCanSucceed ==
    \A i \in Retries :
        \E j \in ResourceWrites : log[j].url = log[i].url /\ log[j].by = log[i].by

-----------------------------------------------------------------------------
(* Browser pages *)

\* C29: every page opened by processPage is closed before processPage returns, on
\* every path, so that no browser page is open between two iterations of the crawl
\* loop (at the loop head and after the loop)
C29_NoOpenPages == pc \in { "loop", "passes" } => openPages = 0

-----------------------------------------------------------------------------
(* The counters of the crawl *)

\* C30 as stated: in every state of the crawl loop, stats.processedPages <= number
\* of page records <= processed, and processed <= maxPages for a budget >= 0
C30_Original ==
    /\ statsProcessedPages <= Len(pages)
    /\ Len(pages) <= processed
    /\ (MAX_PAGES >= 0 => processed <= MAX_PAGES)

\* the counters at one state: the page list is at most one record ahead of the
\* loop counter, and only between the push of processPage and processed++
CountersOrdered ==
    /\ statsProcessedPages <= Len(pages)
    /\ Len(pages) <= processed + 1
    /\ (pc # "enqueue" => Len(pages) <= processed)
    /\ (MAX_PAGES >= 0 => processed <= MAX_PAGES)

\* C30: stats.processedPages <= number of page records in every state; the number
\* of page records is <= processed whenever the loop is between two iterations and
\* <= processed + 1 inside an iteration; processed <= maxPages for a budget >= 0;
\* and each call of processPage adds at most one page record
C30_CountersOrdered ==
    /\ []CountersOrdered
    /\ [][Len(pages') <= Len(pages) + 1]_vars

\* an iteration after the first has pushed its record and not yet counted itself,
\* an earlier page having a record but not counting as processed
C30_Witness ==
    /\ pc = "enqueue"
    /\ MAX_PAGES >= 0
    /\ processed >= 1
    /\ Len(pages) = processed + 1
    /\ statsProcessedPages < Len(pages)

-----------------------------------------------------------------------------
(* Page records *)

\* the records of collectedData.pages that belong to page p
RecordsOf(p) == { i \in DOMAIN pages : Document(pages[i].url) = p }

\* C26: the page list holds exactly one record per page whose render was
\* attempted, for a page rendered successfully and for a page whose render failed
C26_OneRecordPerAttempt == \A p \in Attempted : Cardinality(RecordsOf(p)) = 1

-----------------------------------------------------------------------------
(* Files already present *)

\* the downloads of downloadResource: its fetches and its writes
Downloads ==
    { i \in DOMAIN log : /\ log[i].by = "downloadResource"
                         /\ log[i].op \in { "fetch", "write" } }

\* C24: when the local file a resource URL maps to is already on disk (an earlier
\* download of the run wrote it), downloadResource issues no fetch for the URL
\* and does not write the file again
C24_PresenceCache ==
    \A i \in ResourceWrites : \A j \in Downloads :
        i < j =>
          log[i].path # WithIndex(PathJoin(<< OUTPUT_DIR >>, getRelativePath(log[j].url)))

-----------------------------------------------------------------------------
(* The file of a rendered page *)

\* the saves of rendered markup by processPage
PageWrites == { i \in DOMAIN log : log[i].op = "write" /\ log[i].by = "processPage" }

\* C27: once processPage has saved the rendered markup of a page, no download
\* of downloadResource writes to the local path of that page
C27_RenderedMarkupKept ==
    \A i \in PageWrites : \A j \in ResourceWrites :
        (i < j /\ log[j].by = "downloadResource") => log[j].path # log[i].path

-----------------------------------------------------------------------------
(* The bulk download of the older archiver: every resource of every page is *)
(* downloaded after the crawl, in batches, into one directory per category. *)

UPPER ==
    << "A", "B", "C", "D", "E", "F", "G", "H", "I", "J", "K", "L", "M", "N", "O",
       "P", "Q", "R", "S", "T", "U", "V", "W", "X", "Y", "Z" >>
LOWER ==
    << "a", "b", "c", "d", "e", "f", "g", "h", "i", "j", "k", "l", "m", "n", "o",
       "p", "q", "r", "s", "t", "u", "v", "w", "x", "y", "z" >>

\* s.toLowerCase()
toLowerCase(s) ==
    [i \in 1 .. Len(s) |->
        IF \E k \in DOMAIN UPPER : UPPER[k] = s[i]
        THEN LOWER[CHOOSE k \in DOMAIN UPPER : UPPER[k] = s[i]]
        ELSE s[i]]

\* s.endsWith(p)
EndsWith(s, p) == Len(s) >= Len(p) /\ SubSeq(s, Len(s) - Len(p) + 1, Len(s)) = p

\* s.split(c)[0]
BeforeFirst(s, c) ==
    IF \E i \in DOMAIN s : s[i] = c
    THEN SubSeq(s, 1, (CHOOSE i \in DOMAIN s :
                          s[i] = c /\ \A j \in 1 .. (i - 1) : s[j] # c) - 1)
    ELSE s

\* s.split(c).pop()
AfterLast(s, c) ==
    IF \E i \in DOMAIN s : s[i] = c
    THEN SubSeq(s, (CHOOSE i \in DOMAIN s :
                       s[i] = c /\ \A j \in (i + 1) .. Len(s) : s[j] # c) + 1, Len(s))
    ELSE s

\* s.replace(/-+/g, '-')
RECURSIVE CollapseDashes(_)
CollapseDashes(s) ==
    IF Len(s) < 2 THEN s
    ELSE IF s[1] = "-" /\ s[2] = "-" THEN CollapseDashes(Tail(s))
    ELSE << Head(s) >> \o CollapseDashes(Tail(s))

DOT_SVG == << ".", "s", "v", "g" >>
TEMPLATE_SVG == << "$", "{", "t", "}", ".", "s", "v", "g" >>

\* the template patterns makeSafeFilename looks for in the URL of an icon
TEMPLATE_MARKS ==
    { << "$", "{", "t", "}" >>, << "$", "{", "r" >>, << "$", "\\", "{", "t", "\\", "}" >> }

CSS_DIR == << OUTPUT_DIR, << "c", "s", "s" >> >>
JS_DIR == << OUTPUT_DIR, << "j", "s" >> >>
ASSETS_DIR == << OUTPUT_DIR, ASSETS >>
FONTS_DIR == << OUTPUT_DIR, << "f", "o", "n", "t", "s" >> >>

\* .substring(0, 200)
FILENAME_MAX == 200

\* makeSafeFilename(url): the name of the local file of a resource URL
makeSafeFilename(u) ==
    LET url == UrlString(u)
        hostname == u.hostname
        pathname == Join(u.pathname)
        segments == SelectSeq(u.pathname, LAMBDA x : x # << >>)
        basename == IF segments = << >> THEN << >> ELSE Last(segments)
        lastPathComponent == toLowerCase(basename)
        index == << "i", "n", "d", "e", "x" >>
        filename ==
            IF basename # << >> THEN basename
            ELSE IF Includes(url, DOT_CSS) THEN index \o DOT_CSS
            ELSE IF Includes(url, DOT_JS) THEN index \o DOT_JS
            ELSE index
        safeHostname == ReplaceClass(hostname, { "." }, "-")
        safePathname ==
            CollapseDashes([i \in 1 .. Len(pathname) |->
                              IF pathname[i] \in ALNUM \cup { "_", "-" }
                              THEN pathname[i] ELSE "-"])
        joined == safeHostname \o safePathname \o << "-" >> \o filename
        safeFilename ==
            [i \in 1 .. Len(joined) |->
                IF joined[i] \in ALNUM \cup { ".", "-" } THEN joined[i] ELSE "_"]
    IN IF Includes(toLowerCase(url), DOT_SVG)
          /\ \E m \in TEMPLATE_MARKS : Includes(url, m)
       THEN TEMPLATE_SVG
       ELSE IF Includes(toLowerCase(url), DOT_SVG) /\ segments # << >>
       THEN (IF EndsWith(lastPathComponent, DOT_SVG) THEN lastPathComponent
             ELSE IF ~Includes(lastPathComponent, DOT)
             THEN lastPathComponent \o DOT_SVG
             ELSE lastPathComponent)
       ELSE SubSeq(safeFilename, 1, Min(Len(safeFilename), FILENAME_MAX))

BULK_FONTS ==
    { << "w", "o", "f", "f" >>, << "w", "o", "f", "f", "2" >>, << "t", "t", "f" >>,
      << "o", "t", "f" >>, << "e", "o", "t" >> }
BULK_IMAGES ==
    { << "p", "n", "g" >>, << "j", "p", "g" >>, << "j", "p", "e", "g" >>,
      << "g", "i", "f" >>, << "s", "v", "g" >>, << "w", "e", "b", "p" >>,
      << "i", "c", "o" >>, << "a", "v", "i", "f" >> }

\* categorizeResource(url) of the older archiver: by the extension of the URL
categorizeByExtension(u) ==
    LET lowerUrl == toLowerCase(UrlString(u))
        extension == BeforeFirst(AfterLast(lowerUrl, "."), "?")
    IN IF \/ EndsWith(lowerUrl, DOT_CSS)
          \/ Includes(lowerUrl, DOT_CSS \o << "?" >>)
          \/ extension = << "c", "s", "s" >>
       THEN "css"
       ELSE IF \/ EndsWith(lowerUrl, DOT_JS)
               \/ Includes(lowerUrl, DOT_JS \o << "?" >>)
               \/ extension = << "j", "s" >>
               \/ Includes(lowerUrl, << "/", "_", "n", "e", "x", "t", "/", "s", "t", "a",
                                        "t", "i", "c", "/", "c", "h", "u", "n", "k", "s",
                                        "/" >>)
       THEN "js"
       ELSE IF extension \in BULK_FONTS THEN "font"
       ELSE IF \/ extension \in BULK_IMAGES
               \/ Includes(lowerUrl, << "/", "i", "m", "a", "g", "e", "s", "/" >>)
               \/ Includes(lowerUrl, << "/", "s", "t", "a", "t", "i", "c", "/", "m", "e",
                                        "d", "i", "a", "/" >>)
       THEN "image"
       ELSE "other"

\* getDirectoryForResource(category)
getDirectoryForResource(category) ==
    CASE category = "css" -> CSS_DIR
      [] category = "js" -> JS_DIR
      [] category = "font" -> FONTS_DIR
      [] category = "image" -> ASSETS_DIR
      [] OTHER -> ASSETS_DIR

\* const filePath = path.join(directory, filename)
filePath(resource) ==
    getDirectoryForResource(resource.category) \o << makeSafeFilename(resource.url) >>

\* a resource as processPage records it: the URL and its category
Resource(u) == [url |-> u, category |-> categorizeByExtension(u)]

S_R == << "r" >>
S_S == << "s" >>
S_SVG == << "i", ".", "s", "v", "g" >>

\* the resource URLs of the pages of the bulk scenario
BulkUrls ==
    << Url(HTTPS, domain, << << >>, S_R, S_SVG >>, << >>, << >>),
       Url(HTTPS, domain, << << >>, S_JS >>, << >>, << >>),
       Url(HTTPS, domain, << << >>, S_FONT >>, << >>, << >>),
       Url(HTTPS, CDN_JSDELIVR, << << >>, S_JS >>, << >>, << >>),
       Url(HTTPS, domain, << << >>, S_S, S_SVG >>, << >>, << >>),
       Url(HTTPS, domain, << << >>, S_JS >>, Q_EQ, << >>) >>

\* the longest list of resources the pages of the scenario hold
MaxResources == 7

\* allResources: the resources of all pages, in the order of the pages, a
\* resource that several pages use being listed once per page
AllResources ==
    { [i \in 1 .. n |-> Resource(BulkUrls[((r + i - 1) % Len(BulkUrls)) + 1])] :
        r \in 0 .. (Len(BulkUrls) - 1), n \in (MaxResources - 1) .. MaxResources }

\* "Remove duplicates by URL"
RECURSIVE UniqueByUrl(_, _)
UniqueByUrl(all, acc) ==
    IF all = << >> THEN acc
    ELSE IF \E i \in DOMAIN acc : acc[i].url = Head(all).url
    THEN UniqueByUrl(Tail(all), acc)
    ELSE UniqueByUrl(Tail(all), Append(acc, Head(all)))

\* const batchSize = 5
batchSize == 5

\* uniqueResources.slice(i, i + batchSize), as positions of uniqueResources
Batch(i) == (i + 1) .. Min(i + batchSize, Len(uniqueResources))

\* the downloads that have returned: written, found on disk, or failed
Finished(k) == running[k] \in { "ok", "exists", "failed" }

\* the directories ensureOutputDir has created before the crawl
BulkDisk ==
    [p \in { << OUTPUT_DIR >>, CSS_DIR, JS_DIR, ASSETS_DIR, FONTS_DIR } |-> DIR]

\* the state in which downloadAllResources enters its batch loop
BulkInit ==
    /\ LoopIdle
    /\ requests = { }
    /\ log = << >>
    /\ web = NoWeb
    /\ todo = << >>
    /\ resourcesLeft = << >>
    /\ url1 = BASE_URL
    /\ url2 = BASE_URL
    /\ processedResources = { }
    /\ saved = << >>
    /\ extractedResources = 0
    /\ step = "bulk"
    /\ disk = BulkDisk
    /\ \E all \in AllResources : uniqueResources = UniqueByUrl(all, << >>)
    /\ batchAt = 0
    /\ running = [k \in DOMAIN uniqueResources |-> "idle"]
    /\ bulkWritten = { }

\* what a step of the bulk download leaves alone
BulkFrame ==
    /\ UNCHANGED << url1, url2, processedResources, saved, extractedResources, step,
                    web, todo, resourcesLeft, log >>
    /\ UNCHANGED loopVars

\* batch.map(async (resource) => ...): every download of the batch is started and
\* runs up to its first await, the fs.access of downloadResource
StartBatch ==
    /\ step = "bulk"
    /\ batchAt < Len(uniqueResources)
    /\ running[batchAt + 1] = "idle"
    /\ running' = [k \in DOMAIN running |->
                     IF k \in Batch(batchAt) THEN "access" ELSE running[k]]
    /\ UNCHANGED << uniqueResources, batchAt, bulkWritten, disk, requests >>
    /\ BulkFrame

\* await fs.access(filePath): "Check if file already exists to avoid duplicate
\* downloads"
Access(k) ==
    /\ running[k] = "access"
    /\ running' = [running EXCEPT ![k] =
                     IF Exists(disk, filePath(uniqueResources[k])) THEN "exists" ELSE "get"]
    /\ UNCHANGED << uniqueResources, batchAt, bulkWritten, disk, requests >>
    /\ BulkFrame

\* await axios.get(url, { ..., timeout: 15000 }): the response, or an error
Get(k) ==
    /\ running[k] = "get"
    /\ \E ok \in BOOLEAN :
          running' = [running EXCEPT ![k] = IF ok THEN "write" ELSE "failed"]
    /\ requests' = requests \cup { uniqueResources[k].url.hostname }
    /\ UNCHANGED << uniqueResources, batchAt, bulkWritten, disk >>
    /\ BulkFrame

\* await fs.writeFile(filePath, response.data)
WriteResource(k) ==
    /\ running[k] = "write"
    /\ LET file == filePath(uniqueResources[k])
       IN IF WriteOk(disk, file)
          THEN /\ disk' = WriteFile(disk, file, File("fetched", << >>))
               /\ bulkWritten' = bulkWritten \cup
                                   { [url |-> uniqueResources[k].url, path |-> file] }
               /\ running' = [running EXCEPT ![k] = "ok"]
          ELSE /\ running' = [running EXCEPT ![k] = "failed"]
               /\ UNCHANGED << disk, bulkWritten >>
    /\ UNCHANGED << uniqueResources, batchAt, requests >>
    /\ BulkFrame

\* a batch loop that goes on as soon as one download of the batch has returned
NextBatchEarly ==
    /\ step = "bulk"
    /\ batchAt < Len(uniqueResources)
    /\ \E k \in Batch(batchAt) : Finished(k)
    /\ batchAt' = batchAt + batchSize
    /\ UNCHANGED << uniqueResources, running, bulkWritten, disk, requests >>
    /\ BulkFrame

\* await Promise.all(...) returns when every download of the batch has
\* returned; i += batchSize
NextBatch ==
    /\ step = "bulk"
    /\ batchAt < Len(uniqueResources)
    /\ \A k \in Batch(batchAt) : Finished(k)
    /\ batchAt' = batchAt + batchSize
    /\ UNCHANGED << uniqueResources, running, bulkWritten, disk, requests >>
    /\ BulkFrame

BulkNext ==
    \/ StartBatch
    \/ \E k \in DOMAIN running : Access(k)
    \/ \E k \in DOMAIN running : Get(k)
    \/ \E k \in DOMAIN running : WriteResource(k)
    \/ NextBatch

BulkSpec == BulkInit /\ [][BulkNext]_vars

\* the downloads in flight: started and not yet returned
InFlight == { k \in DOMAIN running : running[k] \in { "access", "get", "write" } }

\* the number of the batch a position of uniqueResources belongs to
BatchOf(k) == (k - 1) \div batchSize

\* C25: in the bulk download at most 5 downloads are in flight at any moment, and
\* no download of a batch has started before every download of the batches
\* before it has returned, with success or with failure
C25_BoundedBatches ==
    /\ Cardinality(InFlight) <= 5
    /\ \A j, k \in DOMAIN running :
          (running[k] # "idle" /\ BatchOf(j) < BatchOf(k)) => Finished(j)

\* the second batch is in flight after a first batch of five downloads of which
\* one was written and one failed
C25_Witness ==
    /\ \E k \in InFlight : BatchOf(k) = 1
    /\ Cardinality({ j \in DOMAIN running : BatchOf(j) = 0 }) = 5
    /\ \E j \in DOMAIN running : BatchOf(j) = 0 /\ running[j] = "ok"
    /\ \E j \in DOMAIN running : BatchOf(j) = 0 /\ running[j] = "failed"

\* C28: in the bulk download no local file is written by more than one download:
\* two distinct resource URLs are never both written to the same file
C28_OneWriterPerFile ==
    \A a, b \in bulkWritten : a.path = b.path => a.url = b.url

=============================================================================
